---- MODULE Spec2Model ----
(***************************************************************************)
(* cleanax (src/lib.rs): clean(root_folder) lists a directory, classifies  *)
(* every entry in parallel (load_image, check_solid_color) and returns the *)
(* paths to delete.  check_solid_color computes a per-channel mean and a   *)
(* "variance" with two rayon map/sum passes over chunks(3) of the samples. *)
(*                                                                         *)
(* Pixel fields are u32.  A u32 is kept here as two 16-bit limbs           *)
(* [hi, lo] = hi * 2^16 + lo, so that sums and squares keep their real     *)
(* width: an addition that leaves the 32 bits either panics (a build with  *)
(* overflow checks) or wraps (a build without).                            *)
(***************************************************************************)
EXTENDS Integers, Sequences, FiniteSets, TLC

VARIABLES
    overflow_checks,  \* build profile: TRUE = arithmetic overflow panics
    \* --- one call of check_solid_color on one decoded image ---
    layout,           \* DynamicImage variant
    buffer,           \* pixels.as_raw(): flat sequence of samples
    phase,            \* "call" | "mean" | "ret" | "idle"
    cut,              \* the runtime cut the last parallel pass into several parts
    mean,             \* result of the first pass
    res,              \* what check_solid_color came to
    \* --- one call of clean ---
    dir,              \* what read_dir does: "ok" | "unreadable" | "entry_error"
    images,           \* the listed entries
    pc,               \* "start" | "scan" | "done" | "idle"
    status,           \* per entry: "todo" | "done" | "panicked"
    found,            \* per entry: the closure returned Some(path)
    stats_calls,      \* per entry: number of statistics routines entered
    pb,               \* progress bar position
    outcome,          \* "running" | "ok" | "err" | "panic"
    to_delete         \* the returned list

stats_vars == <<layout, buffer, phase, cut, mean, res>>
clean_vars == <<dir, images, pc, status, found, stats_calls, pb, outcome, to_delete>>
vars == <<overflow_checks, layout, buffer, phase, cut, mean, res,
          dir, images, pc, status, found, stats_calls, pb, outcome, to_delete>>

----------------------------------------------------------------------------
(* Bounds *)

MaxPixels == 7     \* longest enumerated buffer, in pixels
MaxFiles == 3      \* most entries in the directory

----------------------------------------------------------------------------
(* u32 arithmetic *)

Limb == 65536

\* the u32 of a small integer
U32(n) == [hi |-> n \div Limb, lo |-> n % Limb]

\* a + b modulo 2^32
U32Add(a, b) ==
    [hi |-> (a.hi + b.hi + ((a.lo + b.lo) \div Limb)) % Limb,
     lo |-> (a.lo + b.lo) % Limb]

\* a + b leaves the 32 bits
U32AddOverflows(a, b) == a.hi + b.hi + ((a.lo + b.lo) \div Limb) >= Limb

\* a - b modulo 2^32
U32Sub(a, b) ==
    [hi |-> (a.hi - b.hi - (IF a.lo < b.lo THEN 1 ELSE 0)) % Limb,
     lo |-> (a.lo - b.lo) % Limb]

\* a - b goes below zero
U32SubUnderflows(a, b) == a.hi < b.hi \/ (a.hi = b.hi /\ a.lo < b.lo)

\* x.checked_sub(m).unwrap_or(0) for a sample x < 2^16
CheckedSubOrZero(x, m) ==
    IF m.hi = 0 /\ m.lo <= x THEN x - m.lo ELSE 0

\* h * 2^16 + l for l < 2^17
U32Carry(h, l) == [hi |-> h + (l \div Limb), lo |-> l % Limb]

\* (dh * 2^8 + dl)^2 from its three products
U32SquareBytes(dh, dl) ==
    U32Carry(dh * dh + ((2 * dh * dl) \div 256),
             ((2 * dh * dl) % 256) * 256 + dl * dl)

\* d.pow(2) for d < 2^16: never leaves the 32 bits
U32Square(d) == U32SquareBytes(d \div 256, d % 256)

\* a / n for 0 < n < 2^15
U32Div(a, n) ==
    [hi |-> a.hi \div n, lo |-> ((a.hi % n) * Limb + a.lo) \div n]

U32Less(a, t) == a.hi = 0 /\ a.lo < t

----------------------------------------------------------------------------
(* Pixel *)

Pixel(r, g, b, a) == [r |-> r, g |-> g, b |-> b, a |-> a]

PixelZero == Pixel(U32(0), U32(0), U32(0), U32(0))

\* sum += pixel, field by field; ovf records that some field left 32 bits
PixelAdd(acc, pixel) ==
    [px  |-> Pixel(U32Add(acc.px.r, pixel.r), U32Add(acc.px.g, pixel.g),
                   U32Add(acc.px.b, pixel.b), U32Add(acc.px.a, pixel.a)),
     ovf |-> \/ acc.ovf
             \/ U32AddOverflows(acc.px.r, pixel.r)
             \/ U32AddOverflows(acc.px.g, pixel.g)
             \/ U32AddOverflows(acc.px.b, pixel.b)
             \/ U32AddOverflows(acc.px.a, pixel.a)]

RECURSIVE PixelFold(_, _)
PixelFold(acc, items) ==
    IF items = <<>> THEN acc
    ELSE PixelFold(PixelAdd(acc, Head(items)), Tail(items))

\* a sum whose accumulator starts from an opaque alpha instead of zero
Pixel_sum_from_opaque(items) ==
    PixelFold([px |-> Pixel(U32(0), U32(0), U32(0), U32(255)), ovf |-> FALSE], items)

\* impl Sum for Pixel: start from zero, add every item
Pixel_sum(items) == PixelFold([px |-> PixelZero, ovf |-> FALSE], items)

Pixel_div(p, rhs) ==
    Pixel(U32Div(p.r, rhs), U32Div(p.g, rhs), U32Div(p.b, rhs), U32Div(p.a, rhs))

Pixel_is_zero(p, threshold) ==
    /\ U32Less(p.r, threshold)
    /\ U32Less(p.g, threshold)
    /\ U32Less(p.b, threshold)
    /\ U32Less(p.a, threshold)

----------------------------------------------------------------------------
(* rayon: par_iter().chunks(n).map(f).sum() *)

ChunkSize == 3

Min(a, b) == IF a < b THEN a ELSE b

\* chunks(n): groups of n items, the last one possibly shorter
Chunks(image, n) ==
    [i \in 1..((Len(image) + n - 1) \div n) |->
        SubSeq(image, (i - 1) * n + 1, Min(i * n, Len(image)))]

\* a partial sum s that also remembers an overflow of the sums it is made of
Partial(s, ovf) == [px |-> s.px, ovf |-> s.ovf \/ ovf]

\* the reducer of sum(): the two partial sums are summed as a two-item iterator
SumReduce(left, right) ==
    Partial(Pixel_sum(<<left.px, right.px>>), left.ovf \/ right.ovf)

\* The runtime halves the range lo..hi of items at its middle whenever it
\* decides to split (the middle is in S), folds an unsplit range
\* sequentially and reduces the two halves' sums.
RECURSIVE ParSum(_, _, _, _)
ParSum(items, S, lo, hi) ==
    IF hi - lo >= 2 /\ (lo + ((hi - lo) \div 2)) \in S
    THEN SumReduce(ParSum(items, S, lo, lo + ((hi - lo) \div 2)),
                   ParSum(items, S, lo + ((hi - lo) \div 2), hi))
    ELSE SumReduce(Pixel_sum(<<>>), Pixel_sum(SubSeq(items, lo + 1, hi)))

\* the cuts when every range longer than leaf is halved
RECURSIVE Halve(_, _, _)
Halve(lo, hi, leaf) ==
    IF hi - lo <= leaf THEN {}
    ELSE ({lo + ((hi - lo) \div 2)} \cup Halve(lo, lo + ((hi - lo) \div 2), leaf))
            \cup Halve(lo + ((hi - lo) \div 2), hi, leaf)

\* every set of cuts the halving of lo..hi can make
RECURSIVE Splits(_, _)
Splits(lo, hi) ==
    IF hi - lo < 2 THEN {{}}
    ELSE {{}} \cup {({lo + ((hi - lo) \div 2)} \cup L) \cup R :
                       L \in Splits(lo, lo + ((hi - lo) \div 2)),
                       R \in Splits(lo + ((hi - lo) \div 2), hi)}

\* the coarsest split the model lets the runtime choose: a single part for a
\* short pass, parts of at most 8 items for a long one
Coarsest(n) == IF n <= 2 * MaxPixels THEN {} ELSE Halve(0, n, 8)

\* The splits the model lets the runtime choose among: every one for a
\* short pass; for a long one only those that leave at most 8 or at most
\* 4 items to each sequential fold.
SplitChoices(n) ==
    IF n <= 2 * MaxPixels
    THEN Splits(0, n)
    ELSE {Coarsest(n), Halve(0, n, 4)}

----------------------------------------------------------------------------
(* the closures of the two passes; an item is the Pixel or a panic *)

Item(p) == [panic |-> "none", px |-> p]
Panicked(why) == [panic |-> why, px |-> PixelZero]

\* get_image_statistics, first pass: r, g, b of the chunk, a = T::zero()
SumItem(pixel) ==
    IF Len(pixel) < 3 THEN Panicked("index")
    ELSE Item(Pixel(U32(pixel[1]), U32(pixel[2]), U32(pixel[3]), U32(0)))

\* get_image_statistics_with_alpha, first pass: reads pixel[3] of the chunk
SumItemAlpha(pixel) ==
    IF Len(pixel) < 4 THEN Panicked("index")
    ELSE Item(Pixel(U32(pixel[1]), U32(pixel[2]), U32(pixel[3]), U32(pixel[4])))

\* get_image_statistics, second pass: (x.checked_sub(mean).unwrap_or(0)).pow(2)
VarItem(pixel, m) ==
    IF Len(pixel) < 3 THEN Panicked("index")
    ELSE Item(Pixel(U32Square(CheckedSubOrZero(pixel[1], m.r)),
                    U32Square(CheckedSubOrZero(pixel[2], m.g)),
                    U32Square(CheckedSubOrZero(pixel[3], m.b)),
                    U32Square(CheckedSubOrZero(0, m.a))))

\* get_image_statistics_with_alpha, second pass: x - mean, unchecked, unsquared
VarItemAlpha(pixel, m, checks) ==
    IF Len(pixel) < 4 THEN Panicked("index")
    ELSE IF /\ checks
            /\ \/ U32SubUnderflows(U32(pixel[1]), m.r)
               \/ U32SubUnderflows(U32(pixel[2]), m.g)
               \/ U32SubUnderflows(U32(pixel[3]), m.b)
               \/ U32SubUnderflows(U32(pixel[4]), m.a)
         THEN Panicked("underflow")
         ELSE Item(Pixel(U32Sub(U32(pixel[1]), m.r), U32Sub(U32(pixel[2]), m.g),
                         U32Sub(U32(pixel[3]), m.b), U32Sub(U32(pixel[4]), m.a)))

\* the cause of the first panicking item, "none" when no item panics
FirstPanic(items) ==
    IF \A i \in 1..Len(items) : items[i].panic = "none" THEN "none"
    ELSE items[CHOOSE k \in 1..Len(items) :
                  /\ items[k].panic # "none"
                  /\ \A j \in 1..(k - 1) : items[j].panic = "none"].panic

\* what a pass comes to: a panic of the closure, a panic of the sum s, a
\* division by zero, or sum.div(n)
PassResult(why, s, n, checks) ==
    IF why # "none" THEN [panic |-> why, ovf |-> FALSE, px |-> PixelZero]
    ELSE IF s.ovf /\ checks THEN [panic |-> "overflow", ovf |-> TRUE, px |-> PixelZero]
    ELSE IF n = 0 THEN [panic |-> "div_zero", ovf |-> s.ovf, px |-> PixelZero]
    ELSE [panic |-> "none", ovf |-> s.ovf, px |-> Pixel_div(s.px, n)]

\* map(f).sum() followed by sum.div(n): one pass of either routine.
\* items are the mapped chunks, n the divisor (image.len() / channels).
Pass(items, S, n, checks) ==
    PassResult(FirstPanic(items),
               ParSum([i \in 1..Len(items) |-> items[i].px], S, 0, Len(items)),
               n, checks)

\* lines 100-118 and 55-73: the mean
MeanPass(image, S, alpha, checks) ==
    Pass([i \in 1..Len(Chunks(image, ChunkSize)) |->
             IF alpha THEN SumItemAlpha(Chunks(image, ChunkSize)[i])
                      ELSE SumItem(Chunks(image, ChunkSize)[i])],
         S, Len(image) \div (IF alpha THEN 4 ELSE 3), checks)

\* lines 120-138 and 75-93: the variance, given the mean
VariancePass(image, m, S, alpha, checks) ==
    Pass([i \in 1..Len(Chunks(image, ChunkSize)) |->
             IF alpha THEN VarItemAlpha(Chunks(image, ChunkSize)[i], m, checks)
                      ELSE VarItem(Chunks(image, ChunkSize)[i], m)],
         S, Len(image) \div (IF alpha THEN 4 ELSE 3), checks)

\* (mean, variance) from the results m and v of the two passes, or the panic
MeanAndVariance(m, v) ==
    IF m.panic # "none"
    THEN [panic |-> m.panic, ovf |-> m.ovf, mean |-> PixelZero, variance |-> PixelZero]
    ELSE [panic |-> v.panic, ovf |-> m.ovf \/ v.ovf, mean |-> m.px, variance |-> v.px]

\* the second pass run with the mean m of the first
AfterMean(m, image, S2, alpha, checks) ==
    MeanAndVariance(m, VariancePass(image, m.px, S2, alpha, checks))

\* either routine: the first pass cut at S1, the second at S2
Statistics(image, S1, S2, alpha, checks) ==
    AfterMean(MeanPass(image, S1, alpha, checks), image, S2, alpha, checks)

get_image_statistics(image, S1, S2, checks) ==
    Statistics(image, S1, S2, FALSE, checks)

get_image_statistics_with_alpha(image, S1, S2, checks) ==
    Statistics(image, S1, S2, TRUE, checks)

----------------------------------------------------------------------------
(* check_solid_color *)

Threshold == 20

WithoutAlpha == {"ImageRgb8", "ImageRgb16"}
WithAlpha    == {"ImageRgba8", "ImageRgba16"}
Supported    == WithoutAlpha \cup WithAlpha
PassThrough  == {"ImageBgr8", "ImageBgra8"}
Unsupported  == {"ImageLuma8", "ImageLumaA8", "ImageLuma16", "ImageLumaA16"}
Layouts      == Supported \cup PassThrough \cup Unsupported

Channels(l) ==
    IF l \in {"ImageLuma8", "ImageLuma16"} THEN 1
    ELSE IF l \in {"ImageLumaA8", "ImageLumaA16"} THEN 2
    ELSE IF l \in WithoutAlpha \cup {"ImageBgr8"} THEN 3
    ELSE 4

\* largest sample: u8 or u16
SampleMax(l) ==
    IF l \in {"ImageRgb16", "ImageRgba16", "ImageLuma16", "ImageLumaA16"}
    THEN 65535 ELSE 255

\* the arm of the match for a layout with statistics: q.1.is_zero(20)
VerdictOf(q, entered) ==
    [panic    |-> q.panic,
     verdict  |-> q.panic = "none" /\ Pixel_is_zero(q.variance, Threshold),
     ovf      |-> q.ovf,
     mean     |-> q.mean,
     variance |-> q.variance,
     stats    |-> entered]

Returned(b) ==
    [panic |-> "none", verdict |-> b, ovf |-> FALSE,
     mean |-> PixelZero, variance |-> PixelZero, stats |-> 0]

check_solid_color(l, image, S1, S2, checks) ==
    IF l \in WithoutAlpha
    THEN VerdictOf(get_image_statistics(image, S1, S2, checks), 1)
    ELSE IF l \in WithAlpha
    THEN VerdictOf(get_image_statistics_with_alpha(image, S1, S2, checks), 1)
    ELSE IF l \in PassThrough THEN Returned(FALSE)
    ELSE Returned(TRUE)

----------------------------------------------------------------------------
(* decoded images the statistics are run on *)

Colors == {"dark", "bright"}

\* the samples of one pixel of the given color
Color(c, l) ==
    LET M == SampleMax(l)
        px == IF c = "dark" THEN <<0, 1, 2, 3>> ELSE <<M, M, M - 1, M>>
    IN  SubSeq(px, 1, Channels(l))

\* a buffer of n pixels colored by cols
Painted(cols, l) ==
    LET c == Channels(l)
    IN  [k \in 1..(Len(cols) * c) |-> Color(cols[((k - 1) \div c) + 1], l)[((k - 1) % c) + 1]]

\* 256 pixels in which every channel takes every 8-bit value once
Ramp(l) ==
    LET c == Channels(l)
    IN  [k \in 1..(256 * c) |->
            LET i == (k - 1) \div c
            IN  <<i, 255 - i, (i + 128) % 256, i>>[((k - 1) % c) + 1]]

Paintings == UNION {[1..n -> Colors] : n \in 1..MaxPixels}

Buffers(l) ==
    {Painted(cols, l) : cols \in Paintings}
        \cup (IF SampleMax(l) = 255 THEN {Ramp(l)} ELSE {})

NoResult == [panic |-> "none", verdict |-> FALSE, ovf |-> FALSE,
             mean |-> PixelZero, variance |-> PixelZero, stats |-> 0]

NoMean == [panic |-> "none", ovf |-> FALSE, px |-> PixelZero]

CleanIdle ==
    /\ dir = "ok"
    /\ images = <<>>
    /\ pc = "idle"
    /\ status = <<>>
    /\ found = <<>>
    /\ stats_calls = <<>>
    /\ pb = 0
    /\ outcome = "running"
    /\ to_delete = <<>>

InitStats ==
    /\ overflow_checks \in BOOLEAN
    /\ layout \in Layouts
    /\ buffer \in Buffers(layout)
    /\ phase = "call"
    /\ cut = FALSE
    /\ mean = NoMean
    /\ res = NoResult
    /\ CleanIdle

\* first parallel pass of a statistics routine, cut at S by the runtime
MeanStep(S) ==
    /\ phase = "call"
    /\ layout \in Supported
    /\ mean' = MeanPass(buffer, S, layout \in WithAlpha, overflow_checks)
    /\ phase' = IF mean'.panic # "none" THEN "ret" ELSE "mean"
    /\ res' = IF mean'.panic # "none"
              THEN VerdictOf(MeanAndVariance(mean', mean'), 1)
              ELSE res
    /\ cut' = (S # {})
    /\ UNCHANGED <<overflow_checks, layout, buffer>>
    /\ UNCHANGED clean_vars

\* second parallel pass, division and is_zero(20)
VarianceStep(S) ==
    /\ phase = "mean"
    /\ res' = VerdictOf(AfterMean(mean, buffer, S, layout \in WithAlpha, overflow_checks), 1)
    /\ phase' = "ret"
    /\ cut' = (S # {})
    /\ UNCHANGED <<overflow_checks, layout, buffer, mean>>
    /\ UNCHANGED clean_vars

\* the arms of the match that run no statistics
NoStatistics ==
    /\ phase = "call"
    /\ layout \notin Supported
    /\ res' = check_solid_color(layout, buffer, {}, {}, overflow_checks)
    /\ phase' = "ret"
    /\ UNCHANGED <<overflow_checks, layout, buffer, cut, mean>>
    /\ UNCHANGED clean_vars

NextStats ==
    \/ \E S \in SplitChoices(Len(Chunks(buffer, ChunkSize))) : MeanStep(S)
    \/ \E S \in SplitChoices(Len(Chunks(buffer, ChunkSize))) : VarianceStep(S)
    \/ NoStatistics

SpecStats == InitStats /\ [][NextStats]_vars

----------------------------------------------------------------------------
(* clean *)

None == [some |-> FALSE]

\* an entry of the directory: its path and what decoding the file gives
Entry(utf8, decodes, l, cols) ==
    [utf8 |-> utf8, decodes |-> decodes, layout |-> l,
     buffer |-> IF decodes THEN Painted(cols, l) ELSE <<>>]

EntryKinds ==
    {Entry(TRUE,  FALSE, "ImageRgb8",   <<>>),
     Entry(FALSE, FALSE, "ImageRgb8",   <<>>),
     Entry(TRUE,  TRUE,  "ImageRgb8",   <<"dark">>),
     Entry(TRUE,  TRUE,  "ImageRgb8",   <<"dark", "bright">>),
     Entry(TRUE,  TRUE,  "ImageRgba8",  <<"dark">>),
     Entry(TRUE,  TRUE,  "ImageLuma8",  <<"dark">>),
     Entry(TRUE,  TRUE,  "ImageBgr8",   <<"bright">>)}

Listings == UNION {[1..n -> EntryKinds] : n \in 0..MaxFiles}

\* img.to_str(): the i-th entry's path as a string, None when it is not UTF-8
to_str(i) ==
    IF images[i].utf8 THEN [some |-> TRUE, str |-> <<"root", i>>] ELSE None

\* load_image: None when opening or decoding fails
load_image(entry) ==
    IF entry.decodes
    THEN [some |-> TRUE, layout |-> entry.layout, buffer |-> entry.buffer]
    ELSE None

\* Some(path) when the image is solid, None when it is not, or the panic
OfVerdict(solid) ==
    [panic |-> solid.panic, some |-> solid.panic = "none" /\ solid.verdict,
     inc |-> 1, stats |-> solid.stats]

\* a closure that returns the path of every image it could classify
Closure_ignoring_verdict(path, image, S1, S2, checks) ==
    IF ~path.some
    THEN [panic |-> "unwrap", some |-> FALSE, inc |-> 0, stats |-> 0]
    ELSE [panic |-> "none", some |-> TRUE, inc |-> 1, stats |-> 0]

\* The closure of filter_map, given img.to_str() and what load_image
\* returned: whether it panics, whether it returns Some(path), whether the
\* progress bar moved, and how many statistics routines it entered.
Closure(path, image, S1, S2, checks) ==
    IF ~path.some
    THEN [panic |-> "unwrap", some |-> FALSE, inc |-> 0, stats |-> 0]
    ELSE IF ~image.some
    THEN [panic |-> "none", some |-> TRUE, inc |-> 1, stats |-> 0]
    ELSE OfVerdict(check_solid_color(image.layout, image.buffer, S1, S2, checks))

\* the closure on the i-th entry
Classify(i, S1, S2, checks) ==
    Closure(to_str(i), load_image(images[i]), S1, S2, checks)

InitClean ==
    /\ overflow_checks \in BOOLEAN
    /\ dir \in {"ok", "unreadable", "entry_error"}
    /\ images \in (IF dir = "unreadable" THEN {<<>>} ELSE Listings)
    /\ pc = "start"
    /\ status = [i \in 1..Len(images) |-> "todo"]
    /\ found = [i \in 1..Len(images) |-> FALSE]
    /\ stats_calls = [i \in 1..Len(images) |-> 0]
    /\ pb = 0
    /\ outcome = "running"
    /\ to_delete = <<>>
    /\ layout = "ImageRgb8"
    /\ buffer = <<>>
    /\ phase = "idle"
    /\ cut = FALSE
    /\ mean = NoMean
    /\ res = NoResult

\* lines 201-206: read_dir(..).expect(..), collect::<Result<..>>()?
ReadDir ==
    /\ pc = "start"
    /\ IF dir = "unreadable"
       THEN pc' = "done" /\ outcome' = "panic"
       ELSE IF dir = "entry_error"
       THEN pc' = "done" /\ outcome' = "err"
       ELSE pc' = "scan" /\ outcome' = outcome
    /\ UNCHANGED <<overflow_checks, dir, images, status, found, stats_calls, pb, to_delete>>
    /\ UNCHANGED stats_vars

\* the i-th entry is done with the result c of the closure
Finish(i, c) ==
    /\ status' = [status EXCEPT ![i] = IF c.panic = "none" THEN "done" ELSE "panicked"]
    /\ found' = [found EXCEPT ![i] = c.some]
    /\ stats_calls' = [stats_calls EXCEPT ![i] = c.stats]
    /\ pb' = pb + c.inc

\* lines 210-231: a worker runs the closure on the i-th entry
ProcessFile(i, S1, S2) ==
    /\ pc = "scan"
    /\ status[i] = "todo"
    /\ Finish(i, Classify(i, S1, S2, overflow_checks))
    /\ UNCHANGED <<overflow_checks, dir, images, pc, outcome, to_delete>>
    /\ UNCHANGED stats_vars

\* the names the closure returned, in the order of the listing
RECURSIVE Collected(_, _)
Collected(i, n) ==
    IF i > n THEN <<>>
    ELSE (IF found[i] THEN <<to_str(i).str>> ELSE <<>>) \o Collected(i + 1, n)

\* lines 232-234: collect() and the return; a panic of a worker is resumed
\* in the caller once the other workers have stopped, wherever they are
Collect ==
    /\ pc = "scan"
    /\ \/ \A i \in 1..Len(images) : status[i] = "done"
       \/ \E i \in 1..Len(images) : status[i] = "panicked"
    /\ IF \E i \in 1..Len(images) : status[i] = "panicked"
       THEN outcome' = "panic" /\ to_delete' = <<>>
       ELSE outcome' = "ok" /\ to_delete' = Collected(1, Len(images))
    /\ pc' = "done"
    /\ UNCHANGED <<overflow_checks, dir, images, status, found, stats_calls, pb>>
    /\ UNCHANGED stats_vars

NextClean ==
    \/ ReadDir
    \/ \E i \in 1..Len(images) :
         \E S1, S2 \in SplitChoices(Len(Chunks(images[i].buffer, ChunkSize))) :
            ProcessFile(i, S1, S2)
    \/ Collect

SpecClean == InitClean /\ [][NextClean]_vars

----------------------------------------------------------------------------
(* Properties *)

Alpha == layout \in WithAlpha

\* the k-th sample of the i-th pixel of the decoded image
Sample(i, k) == buffer[(i - 1) * Channels(layout) + k]

PixelCount == Len(buffer) \div Channels(layout)

\* every pixel of the image has the color of the first one
IsConstant ==
    /\ PixelCount > 0
    /\ \A i \in 1..PixelCount : \A k \in 1..Channels(layout) : Sample(i, k) = Sample(1, k)

\* every channel takes every value of the sample type equally often
IsUniform ==
    LET range == SampleMax(layout) + 1
    IN  /\ PixelCount > 0
        /\ PixelCount % range = 0
        /\ \A k \in 1..Channels(layout) : \A v \in 0..(range - 1) :
              Cardinality({i \in 1..PixelCount : Sample(i, k) = v})
                 = PixelCount \div range

\* the path of the i-th entry is in the returned list
Listed(i) == \E k \in 1..Len(to_delete) : to_delete[k] = <<"root", i>>

Entries == 1..Len(images)

Returns == pc = "done" /\ dir = "ok"

\* C1: during one call of clean a failure while loading or classifying one
\* file never keeps the other files from being classified and never aborts
\* the scan: clean classifies every entry and returns a list.
C1_FilesAreIndependent ==
    Returns => (outcome = "ok" /\ \A i \in Entries : status[i] = "done")

\* C2: every entry for which load_image returns None is in the list clean
\* returns, whatever happens to the other entries of the scan.
C2_DecodeFailureIsListed ==
    Returns =>
        \A i \in Entries :
            (to_str(i).some /\ ~load_image(images[i]).some)
                => (outcome = "ok" /\ Listed(i))

\* C3: for a buffer of a supported layout whose N > 0 pixels all hold the
\* same color, the variance of every channel is zero and check_solid_color
\* returns true.
C3_ConstantColorIsSolid ==
    (phase = "ret" /\ layout \in Supported /\ IsConstant) =>
        (res.panic = "none" /\ res.variance = PixelZero /\ res.verdict)

\* C4: when listing the directory fails, clean returns an error value to
\* its caller, classifies no entry and returns no list.
C4_ListingFailureIsAnError ==
    (pc = "done" /\ dir # "ok") =>
        /\ outcome = "err"
        /\ to_delete = <<>>
        /\ \A i \in Entries : status[i] = "todo"

\* the verdict of the i-th entry is Delete
IsDelete(i) ==
    \/ ~images[i].decodes
    \/ check_solid_color(images[i].layout, images[i].buffer, {}, {},
                         overflow_checks).verdict

\* C5: whenever clean returns a list, whatever the order in which the
\* workers ran, every entry whose verdict is Delete is in the list exactly
\* once, no entry whose verdict is Keep is in it, and it holds nothing else.
C5_ListIsTheDeleteVerdicts ==
    outcome = "ok" =>
        /\ \A i \in Entries :
              Cardinality({k \in 1..Len(to_delete) : to_delete[k] = <<"root", i>>})
                 = (IF IsDelete(i) THEN 1 ELSE 0)
        /\ \A k \in 1..Len(to_delete) : \E i \in Entries : to_delete[k] = <<"root", i>>

\* a list with two paths was returned from a directory that also has a file to keep
C5_Witness ==
    /\ outcome = "ok"
    /\ Len(to_delete) >= 2
    /\ \E i \in Entries : ~IsDelete(i)

\* the reduction in a single part (for the 256-pixel buffers: in the
\* coarsest parts the model has)
OnePart == Coarsest(Len(Chunks(buffer, ChunkSize)))

\* C6: however the runtime cuts the pixels into contiguous parts, the mean,
\* the variance and the verdict (or the panic) are those of the reduction
\* of the buffer in a single part.
C6_PartitionInvariance ==
    /\ (phase \in {"mean", "ret"} /\ layout \in Supported) =>
          mean = MeanPass(buffer, OnePart, Alpha, overflow_checks)
    /\ (phase = "ret" /\ layout \in Supported) =>
          res = check_solid_color(layout, buffer, OnePart, OnePart, overflow_checks)

\* the variance pass of a buffer that is not flat was cut into several parts
C6_Witness ==
    /\ phase = "ret"
    /\ cut
    /\ res.panic = "none"
    /\ res.variance.r # U32(0)

\* the square of sample - m, the difference clamped to zero
ClampedSquare(x, m) == U32Square(IF m.hi = 0 /\ x >= m.lo THEN x - m.lo ELSE 0)

\* the item of the variance pass made from the i-th chunk
VarianceItem(i) ==
    IF Alpha
    THEN VarItemAlpha(Chunks(buffer, ChunkSize)[i], mean.px, overflow_checks)
    ELSE VarItem(Chunks(buffer, ChunkSize)[i], mean.px)

\* C7: in the variance pass of every supported layout, with and without
\* alpha, each difference sample - mean that would be negative is clamped
\* to zero before it is squared; no panic ends the routine before or in
\* that pass on account of an index or an underflow.
C7_DifferencesAreClamped ==
    (phase = "ret" /\ layout \in Supported) =>
        /\ mean.panic = "none"
        /\ res.panic \notin {"index", "underflow"}
        /\ \A i \in 1..PixelCount :
              /\ VarianceItem(i).px.r = ClampedSquare(Sample(i, 1), mean.px.r)
              /\ VarianceItem(i).px.g = ClampedSquare(Sample(i, 2), mean.px.g)
              /\ VarianceItem(i).px.b = ClampedSquare(Sample(i, 3), mean.px.b)
              /\ Alpha => VarianceItem(i).px.a = ClampedSquare(Sample(i, 4), mean.px.a)

\* C8: for a buffer of a supported layout whose channels are uniformly
\* distributed over the whole range of the sample type, the variance of the
\* color channels exceeds 20 and check_solid_color returns false.
C8_UniformIsKept ==
    (phase = "ret" /\ layout \in Supported /\ IsUniform) =>
        /\ res.panic = "none"
        /\ ~U32Less(res.variance.r, Threshold + 1)
        /\ ~U32Less(res.variance.g, Threshold + 1)
        /\ ~U32Less(res.variance.b, Threshold + 1)
        /\ ~res.verdict

\* C9: for a decoded image of a layout that is neither supported nor BGR,
\* check_solid_color returns true without entering a statistics routine,
\* and clean lists the path of the file.
C9_UnsupportedLayoutIsListed ==
    Returns =>
        \A i \in Entries :
            (to_str(i).some /\ images[i].decodes /\ images[i].layout \in Unsupported)
                => (stats_calls[i] = 0 /\ outcome = "ok" /\ Listed(i))

\* C10: for every buffer of a supported layout no 32-bit accumulator of
\* Pixel overflows, in the sum of the samples or in the sum of the squared
\* deviations.
C10_AccumulatorsNeverOverflow ==
    layout \in Supported =>
        /\ ~mean.ovf
        /\ ~res.ovf
        /\ mean.panic # "overflow"
        /\ res.panic # "overflow"

====
